---- MODULE Spec2Model ----
(***************************************************************************)
(* The streaming chat session of the two chat views,                       *)
(*   src/src/components/ChatComponent.tsx     (variant "ChatComponent")    *)
(*   src/src/components/projects/Chat.tsx     (variant "Chat")             *)
(* Both views hold the same state and the same handlers; they differ in    *)
(* completeCurrentResponse, cancelRequest, handleNewSession and in the     *)
(* record a first chunk creates.  Every event handler runs to completion   *)
(* on the UI event loop, so one handler is one action.                     *)
(***************************************************************************)
EXTENDS Integers, Sequences, FiniteSets, TLC

VARIABLES
  variant,                  \* which of the two views this session is
  strictMode,               \* whether the root renders under React.StrictMode
  phase,                    \* "init" | "mounted" | "unmounted" (the mount effect)
  sockets,                  \* every WebSocket created by connect(), in creation order
  wsRef,                    \* wsRef.current: index into sockets, 0 for null
  timers,                   \* number of pending setTimeout reconnect callbacks
  connected,                \* useState connected
  chatMessages,             \* useState chatMessages (the transcript)
  query,                    \* useState query (the input text, a sequence of characters)
  isStreaming,              \* useState isStreaming
  isWaitingForResponse,     \* useState isWaitingForResponse
  sessionId,                \* sessionId.current
  currentResponseIndexRef,  \* currentResponseIndexRef.current (0-based, -1 for none)
  sent,                     \* frames handed to ws.send(), in order
  hist,                     \* history: per turn, the values it was created with
  run,                      \* history: the fragments delivered to the turn in progress
  count                     \* history: transcript writes, chunks delivered, queries submitted;
                            \* max: the writes a behaviour is followed for

vars == << variant, strictMode, phase, sockets, wsRef, timers, connected, chatMessages, query,
           isStreaming, isWaitingForResponse, sessionId, currentResponseIndexRef,
           sent, hist, run, count >>

(***************************************************************************)
(* Bounds of the exploration.                                              *)
(***************************************************************************)
MaxWrites == 5      \* writes of the transcript (a turn appended or extended) in one behaviour
MaxWritesChat == 6  \* the same, for the behaviours of SpecChat

Variants == {"ChatComponent", "Chat"}
SessionIds == {"session-a", "session-b"}
Inputs == {<< >>, <<" ">>, <<"A">>}
Suggestions == {<<"Which drugs in our portfolio show unusual shifts?">>}

NONE == -1

(***************************************************************************)
(* Strings.  The input is a sequence of characters; trim() removes the     *)
(* leading and the trailing white space, Str() is the text itself.         *)
(***************************************************************************)
RECURSIVE TrimLeft(_)
TrimLeft(s) == IF s # << >> /\ Head(s) = " " THEN TrimLeft(Tail(s)) ELSE s

RECURSIVE TrimRight(_)
TrimRight(s) ==
  IF s # << >> /\ s[Len(s)] = " " THEN TrimRight(SubSeq(s, 1, Len(s) - 1)) ELSE s

Trim(s) == TrimRight(TrimLeft(s))

RECURSIVE Str(_)
Str(s) == IF s = << >> THEN "" ELSE Head(s) \o Str(Tail(s))

RECURSIVE Concat(_)
Concat(fs) == IF fs = << >> THEN "" ELSE Head(fs) \o Concat(Tail(fs))

(***************************************************************************)
(* Inbound frames: JSON objects; an absent field is the empty string,      *)
(* which is falsy like undefined.                                          *)
(***************************************************************************)
Frame(t, d, m, e) == [type |-> t, data |-> d, message |-> m, error |-> e]

\* The k-th fragment the peer streams (k from 0); the fragments differ, so
\* that a dropped, repeated or reordered one shows in the text.
Fragment(k) == IF k = 0 THEN "He" ELSE IF k = 1 THEN "llo" ELSE IF k = 2 THEN ", " ELSE "you"

Frames ==
  { Frame("chunk", Fragment(count.chunks), "", ""),
    Frame("end", "", "", ""), Frame("done", "", "", ""),
    Frame("cancelled", "", "stopped", ""),
    Frame("", "", "", "boom"),
    Frame("ping", "", "", ""),
    Frame("end", "", "", "boom") }

(***************************************************************************)
(* The transcript.                                                         *)
(***************************************************************************)
Msg(t, c, ic) == [type |-> t, content |-> c, isComplete |-> ic]

addMessage(prev, type, content) == Append(prev, Msg(type, content, "true"))

\* The record a first chunk creates: Chat.tsx sets isComplete: false,
\* ChatComponent.tsx leaves the field out.
newChunkMessage(chunk) ==
  IF variant = "Chat" THEN Msg("chunk", chunk, "false")
  ELSE Msg("chunk", chunk, "undefined")

\* appendResponseChunk dropping the fragment when the reference is set but
\* is no position of the transcript.
appendResponseChunk_dropsDangling(prev, ref, chunk) ==
  IF ref >= 0 /\ ref < Len(prev)
  THEN [msgs |-> [prev EXCEPT ![ref + 1].content = @ \o chunk], ref |-> ref]
  ELSE IF ref >= 0
       THEN [msgs |-> prev, ref |-> ref]
       ELSE [msgs |-> Append(prev, newChunkMessage(chunk)), ref |-> Len(prev)]

\* appendResponseChunk replacing the text of the turn in progress by the
\* fragment instead of concatenating.
appendResponseChunk_replace(prev, ref, chunk) ==
  IF ref >= 0 /\ ref < Len(prev)
  THEN [msgs |-> [prev EXCEPT ![ref + 1].content = chunk], ref |-> ref]
  ELSE [msgs |-> Append(prev, newChunkMessage(chunk)), ref |-> Len(prev)]

\* appendResponseChunk creating the turn empty and dropping the first fragment.
appendResponseChunk_empty(prev, ref, chunk) ==
  IF ref >= 0 /\ ref < Len(prev)
  THEN [msgs |-> [prev EXCEPT ![ref + 1].content = @ \o chunk], ref |-> ref]
  ELSE [msgs |-> Append(prev, newChunkMessage("")), ref |-> Len(prev)]

\* The updater of appendResponseChunk: the new transcript and the new reference.
appendResponseChunk(prev, ref, chunk) ==
  IF ref >= 0 /\ ref < Len(prev)
  THEN [msgs |-> [prev EXCEPT ![ref + 1].content = @ \o chunk], ref |-> ref]
  ELSE [msgs |-> Append(prev, newChunkMessage(chunk)), ref |-> Len(prev)]

\* completeCurrentResponse of ChatComponent.tsx leaving the reference set.
completeCurrentResponse_ChatComponent_noReset(prev, ref) == [msgs |-> prev, ref |-> ref]

\* completeCurrentResponse of ChatComponent.tsx: only the reference is reset.
completeCurrentResponse_ChatComponent(prev, ref) ==
  [msgs |-> prev, ref |-> IF ref >= 0 THEN NONE ELSE ref]

\* completeCurrentResponse of Chat.tsx resetting the reference without
\* marking the turn complete.
completeCurrentResponse_Chat_unmarked(prev, ref) ==
  IF ref >= 0 /\ ref < Len(prev)
  THEN [msgs |-> prev, ref |-> NONE]
  ELSE [msgs |-> prev, ref |-> ref]

\* completeCurrentResponse of Chat.tsx: the turn is marked and the reference
\* reset, both only when the reference is a position of the transcript.
completeCurrentResponse_Chat(prev, ref) ==
  IF ref >= 0 /\ ref < Len(prev)
  THEN [msgs |-> [prev EXCEPT ![ref + 1].type = "response",
                              ![ref + 1].isComplete = "true"],
        ref |-> NONE]
  ELSE [msgs |-> prev, ref |-> ref]

\* completeCurrentResponse doing nothing in either view.
completeCurrentResponse_none(prev, ref) == [msgs |-> prev, ref |-> ref]

completeCurrentResponse(prev, ref) ==
  IF variant = "Chat" THEN completeCurrentResponse_Chat(prev, ref)
  ELSE completeCurrentResponse_ChatComponent(prev, ref)

\* The converted messages the view renders: user and assistant turns only.
IsShown(m) == m.type \in {"query", "chunk", "response"}
messages == SelectSeq(chatMessages, IsShown)


(***************************************************************************)
(* The connection manager.  A connection is the pair of the sockets        *)
(* created so far and wsRef.current.                                       *)
(***************************************************************************)
NewSocket == [readyState |-> "CONNECTING", wasOpen |-> FALSE]

Conn(ss, ref) == [sockets |-> ss, wsRef |-> ref]

\* ws.close(): a socket that is connecting or open starts closing, the
\* close event follows later; closing an already closed socket does nothing.
close(ws) ==
  IF ws.readyState \in {"CONNECTING", "OPEN"}
  THEN [ws EXCEPT !.readyState = "CLOSING"]
  ELSE ws

\* connect() without the check of the current socket.
connect_unguarded(c) == Conn(Append(c.sockets, NewSocket), Len(c.sockets) + 1)

connect(c) ==
  IF c.wsRef # 0 /\ c.sockets[c.wsRef].readyState = "OPEN"
  THEN c
  ELSE Conn(Append(c.sockets, NewSocket), Len(c.sockets) + 1)

disconnect(c) ==
  IF c.wsRef # 0
  THEN Conn([c.sockets EXCEPT ![c.wsRef] = close(@)], 0)
  ELSE c

\* The timer callback calling connect() without looking at the socket.
reconnectTimer_unguarded(c) == connect(c)

\* The timer callback giving up: it never calls connect().
reconnectTimer_never(c) == c

\* The callback ws.onclose hands to setTimeout.
reconnectTimer(c) ==
  IF c.wsRef = 0 \/ c.sockets[c.wsRef].readyState = "CLOSED"
  THEN connect(c)
  ELSE c

\* The effect of the mount: connect(); under React.StrictMode the
\* development build runs the effect, its cleanup and the effect again
\* before any event is delivered.
mountEffect(c, strict) ==
  IF strict THEN connect(disconnect(connect(c))) ELSE connect(c)

Live(ws) == ws.readyState \in {"CONNECTING", "OPEN"}

(***************************************************************************)
(* History variables.                                                      *)
(***************************************************************************)
Created(m, g) == [type |-> m.type, content |-> m.content, gen |-> g]

\* hist after a step that leaves the transcript msgs: the turns that were
\* there keep their entry, a new turn gets one (reset: the transcript was
\* cleared first).
HistOf(msgs, reset, g) ==
  [i \in 1..Len(msgs) |->
     IF ~reset /\ i <= Len(hist) THEN hist[i] ELSE Created(msgs[i], g)]

NoRun == [ref |-> NONE, frags |-> << >>, ended |-> FALSE]

\* No run, a terminal frame was the last frame of the conversation.
EndedRun == [ref |-> NONE, frags |-> << >>, ended |-> TRUE]

\* The run r, or no run when the reference moved off its turn.
Keep(r, ref) == IF ref = r.ref THEN r ELSE [NoRun EXCEPT !.ended = r.ended]

\* The state all handlers write: transcript, reference and the histories.
Commit(msgs, ref, reset, newRun) ==
  /\ chatMessages' = msgs
  /\ currentResponseIndexRef' = ref
  /\ hist' = HistOf(msgs, reset, count'.queries)
  /\ run' = newRun

\* The handler writes the transcript w times, delivers c chunks and submits
\* q queries.
Count(w, c, q) ==
  /\ count.writes + w <= count.max
  /\ count' = [count EXCEPT !.writes = @ + w, !.chunks = @ + c, !.queries = @ + q]

(***************************************************************************)
(* Init: the state after the first render, before the mount effect.        *)
(***************************************************************************)
InitWith(variants, strict, max) ==
  /\ variant \in variants
  /\ strictMode \in strict
  /\ phase = "init"
  /\ sockets = << >>
  /\ wsRef = 0
  /\ timers = 0
  /\ connected = FALSE
  /\ chatMessages = << >>
  /\ query = << >>
  /\ isStreaming = FALSE
  /\ isWaitingForResponse = FALSE
  /\ sessionId = "session-a"
  /\ currentResponseIndexRef = NONE
  /\ sent = << >>
  /\ hist = << >>
  /\ run = NoRun
  /\ count = [writes |-> 0, chunks |-> 0, queries |-> 0, max |-> max]

\* Either view, with or without React.StrictMode.
Init == InitWith(Variants, BOOLEAN, MaxWrites)

\* projects/Chat.tsx rendered without React.StrictMode.
InitChat == InitWith({"Chat"}, {FALSE}, MaxWritesChat)

(***************************************************************************)
(* The mount effect and its cleanup.                                       *)
(***************************************************************************)
Mount ==
  /\ phase = "init"
  /\ LET c == mountEffect(Conn(sockets, wsRef), strictMode) IN
       /\ sockets' = c.sockets
       /\ wsRef' = c.wsRef
  /\ phase' = "mounted"
  /\ Count(0, 0, 0)
  /\ UNCHANGED << variant, strictMode, timers, connected, chatMessages, query, isStreaming,
                  isWaitingForResponse, sessionId, currentResponseIndexRef,
                  sent, hist, run >>

Unmount ==
  /\ phase = "mounted"
  /\ LET c == disconnect(Conn(sockets, wsRef)) IN
       /\ sockets' = c.sockets
       /\ wsRef' = c.wsRef
  /\ phase' = "unmounted"
  /\ Count(0, 0, 0)
  /\ UNCHANGED << variant, strictMode, timers, connected, chatMessages, query, isStreaming,
                  isWaitingForResponse, sessionId, currentResponseIndexRef,
                  sent, hist, run >>

(***************************************************************************)
(* Socket events.                                                          *)
(***************************************************************************)
\* ws.onopen
SocketOpen(s) ==
  /\ sockets[s].readyState = "CONNECTING"
  /\ sockets' = [sockets EXCEPT ![s] = [readyState |-> "OPEN", wasOpen |-> TRUE]]
  /\ connected' = TRUE
  /\ Count(1, 0, 0)
  /\ Commit(addMessage(chatMessages, "system", "Connected to WebSocket"),
            currentResponseIndexRef, FALSE, run)
  /\ UNCHANGED << variant, strictMode, phase, wsRef, timers, query, isStreaming,
                  isWaitingForResponse, sessionId, sent >>

\* The peer starts the closing handshake: readyState becomes CLOSING, no
\* handler runs.
SocketClosing(s) ==
  /\ sockets[s].readyState = "OPEN"
  /\ sockets' = [sockets EXCEPT ![s].readyState = "CLOSING"]
  /\ Count(0, 0, 0)
  /\ UNCHANGED << variant, strictMode, phase, wsRef, timers, connected, chatMessages, query,
                  isStreaming, isWaitingForResponse, sessionId,
                  currentResponseIndexRef, sent, hist, run >>

\* ws.onerror
onerror(prev) == addMessage(prev, "error", "WebSocket Error: [object Event]")

\* ws.onclose, the transcript part
onclose(prev) == addMessage(prev, "system", "Disconnected from WebSocket")

\* ws.onclose scheduling nothing.
oncloseTimers_none(n) == n

\* ws.onclose, the number of reconnect timers it leaves pending
oncloseTimers(n) == n + 1

\* The connection is closed: readyState becomes CLOSED and, in the same
\* task, the error event (when the connection failed) and the close event
\* are fired.  A socket that never opened can only fail.
SocketClose(s, failed) ==
  /\ sockets[s].readyState # "CLOSED"
  /\ ~sockets[s].wasOpen => failed
  /\ LET afterError == IF failed THEN onerror(chatMessages) ELSE chatMessages
         msgs == onclose(afterError)
     IN /\ Count(IF failed THEN 2 ELSE 1, 0, 0)
        /\ Commit(msgs, currentResponseIndexRef, FALSE, run)
  /\ sockets' = [sockets EXCEPT ![s].readyState = "CLOSED"]
  /\ connected' = FALSE
  /\ timers' = oncloseTimers(timers)
  /\ UNCHANGED << variant, strictMode, phase, wsRef, query, isStreaming,
                  isWaitingForResponse, sessionId, sent >>

\* A reconnect timer fires.
TimerFire ==
  /\ timers > 0
  /\ timers' = timers - 1
  /\ LET c == reconnectTimer(Conn(sockets, wsRef)) IN
       /\ sockets' = c.sockets
       /\ wsRef' = c.wsRef
  /\ Count(0, 0, 0)
  /\ UNCHANGED << variant, strictMode, phase, connected, chatMessages, query, isStreaming,
                  isWaitingForResponse, sessionId, currentResponseIndexRef,
                  sent, hist, run >>

(***************************************************************************)
(* Inbound frames: ws.onmessage.                                           *)
(***************************************************************************)
\* ws.onmessage testing the error field before the type.
dispatch_errorFirst(f) ==
  IF f.error # "" THEN "error"
  ELSE IF f.type = "chunk" THEN "chunk"
  ELSE IF f.type = "end" \/ f.type = "done" THEN "end"
  ELSE IF f.type = "cancelled" THEN "cancelled"
  ELSE "ignored"

\* The branch ws.onmessage takes for a parsed frame.
dispatch(f) ==
  IF f.type = "chunk" THEN "chunk"
  ELSE IF f.type = "end" \/ f.type = "done" THEN "end"
  ELSE IF f.type = "cancelled" THEN "cancelled"
  ELSE IF f.error # "" THEN "error"
  ELSE "ignored"

\* ws.onmessage finalizing the response in progress on an error frame.
onmessage_errorFinalizes(prev, ref, f) ==
  LET b == dispatch(f) IN
    IF b = "chunk" THEN appendResponseChunk(prev, ref, f.data)
    ELSE IF b = "end" THEN
      LET r == completeCurrentResponse(prev, ref) IN
        [msgs |-> addMessage(r.msgs, "system", "--- End of Response ---"),
         ref |-> r.ref]
    ELSE IF b = "cancelled" THEN
      LET r == completeCurrentResponse(prev, ref) IN
        [msgs |-> addMessage(r.msgs, "system",
                             "--- Request cancelled: " \o f.message \o " ---"),
         ref |-> r.ref]
    ELSE IF b = "error" THEN
      LET r == completeCurrentResponse(prev, ref) IN
        [msgs |-> addMessage(r.msgs, "error", "Error: " \o f.error), ref |-> r.ref]
    ELSE [msgs |-> prev, ref |-> ref]

\* The transcript and the reference after ws.onmessage.
onmessage(prev, ref, f) ==
  LET b == dispatch(f) IN
    IF b = "chunk" THEN appendResponseChunk(prev, ref, f.data)
    ELSE IF b = "end" THEN
      LET r == completeCurrentResponse(prev, ref) IN
        [msgs |-> addMessage(r.msgs, "system", "--- End of Response ---"),
         ref |-> r.ref]
    ELSE IF b = "cancelled" THEN
      LET r == completeCurrentResponse(prev, ref) IN
        [msgs |-> addMessage(r.msgs, "system",
                             "--- Request cancelled: " \o f.message \o " ---"),
         ref |-> r.ref]
    ELSE IF b = "error" THEN
      [msgs |-> addMessage(prev, "error", "Error: " \o f.error), ref |-> ref]
    ELSE [msgs |-> prev, ref |-> ref]

\* ws.onmessage setting isStreaming on a chunk and never clearing it.
onmessageStreaming_chunkOnly(f) == IF dispatch(f) = "chunk" THEN TRUE ELSE isStreaming

\* isStreaming after ws.onmessage.
onmessageStreaming(f) ==
  LET b == dispatch(f) IN
    IF b = "chunk" THEN TRUE
    ELSE IF b = "ignored" THEN isStreaming
    ELSE FALSE

\* ws.onmessage leaving isWaitingForResponse set when a chunk arrives.
onmessageWaiting_kept(f) ==
  IF dispatch(f) \in {"ignored", "chunk"} THEN isWaitingForResponse ELSE FALSE

\* isWaitingForResponse after ws.onmessage.
onmessageWaiting(f) ==
  IF dispatch(f) = "ignored" THEN isWaitingForResponse ELSE FALSE

\* The fragments of the turn in progress after a frame: a chunk that created
\* a turn starts a run, a chunk appended to the turn of the run extends it,
\* a terminal frame, a new chat or a moved reference ends it.
RunOf(f, r) ==
  IF dispatch(f) = "chunk"
  THEN IF Len(r.msgs) > Len(chatMessages)
       THEN [ref |-> r.ref, frags |-> << f.data >>, ended |-> FALSE]
       ELSE IF run.ref = r.ref /\ run.ref # NONE
            THEN [ref |-> r.ref, frags |-> Append(run.frags, f.data), ended |-> FALSE]
            ELSE NoRun
  ELSE IF dispatch(f) \in {"end", "cancelled"}
       THEN EndedRun
       ELSE Keep(run, r.ref)

\* A frame is delivered on a socket that has opened and is not yet closed.
SocketMessage(s, f) ==
  /\ sockets[s].wasOpen
  /\ sockets[s].readyState \in {"OPEN", "CLOSING"}
  /\ LET r == onmessage(chatMessages, currentResponseIndexRef, f) IN
       /\ Count(IF dispatch(f) = "ignored" THEN 0 ELSE 1,
                IF dispatch(f) = "chunk" THEN 1 ELSE 0, 0)
       /\ Commit(r.msgs, r.ref, FALSE, RunOf(f, r))
  /\ isStreaming' = onmessageStreaming(f)
  /\ isWaitingForResponse' = onmessageWaiting(f)
  /\ UNCHANGED << variant, strictMode, phase, sockets, wsRef, timers, connected, query,
                  sessionId, sent >>

(***************************************************************************)
(* The user's handlers.  The view offers a control only in the states      *)
(* its disabled and rendering conditions allow.                            *)
(***************************************************************************)
IsOpen == wsRef # 0 /\ sockets[wsRef].readyState = "OPEN"

\* An outbound frame carrying the id the session was constructed with.
Out_firstSession(shape, q) == [shape |-> shape, query |-> q, sessionId |-> "session-a"]

\* An outbound frame: its shape, its query text and sessionId.current.
Out(shape, q) == [shape |-> shape, query |-> q, sessionId |-> sessionId]

\* MessageInput onChange: setQuery; the input is disabled while
\* disconnected or streaming.
TypeQuery(q) ==
  /\ phase = "mounted"
  /\ connected /\ ~isStreaming
  /\ q # query
  /\ query' = q
  /\ Count(0, 0, 0)
  /\ UNCHANGED << variant, strictMode, phase, sockets, wsRef, timers, connected, chatMessages,
                  isStreaming, isWaitingForResponse, sessionId,
                  currentResponseIndexRef, sent, hist, run >>

\* sendQuery's guard testing the text without trimming it.
sendQueryAccepts_untrimmed(q) ==
  q # << >> /\ wsRef # 0 /\ sockets[wsRef].readyState = "OPEN"

\* sendQuery's guard: it returns at once unless this holds.
sendQueryAccepts(q) == Trim(q) # << >> /\ wsRef # 0 /\ sockets[wsRef].readyState = "OPEN"

\* The body the form's sendQuery and the suggestion's onClick share: text is
\* the query text sent.
Submit(text) ==
  /\ isStreaming' = FALSE
  /\ isWaitingForResponse' = TRUE
  /\ sent' = Append(sent, Out("query", text))
  /\ query' = << >>
  /\ Count(1, 0, 1)
  /\ Commit(addMessage(chatMessages, "query", text), currentResponseIndexRef,
            FALSE, run)

\* form onSubmit: sendQuery()
SendQuery ==
  /\ phase = "mounted"
  /\ connected /\ ~isStreaming
  /\ IF sendQueryAccepts(query)
     THEN Submit(Str(query))
     ELSE UNCHANGED << chatMessages, currentResponseIndexRef, hist, run, count,
                          isStreaming, isWaitingForResponse, sent, query >>
  /\ UNCHANGED << variant, strictMode, phase, sockets, wsRef, timers, connected, sessionId >>

\* suggestion onClick; the cards are rendered while connected and no user
\* or assistant turn is shown.
SuggestionClick(sg) ==
  /\ phase = "mounted"
  /\ connected /\ Len(messages) = 0
  /\ ~(~connected \/ isStreaming)
  /\ IF IsOpen
     THEN Submit(Str(sg))
     ELSE /\ query' = IF variant = "ChatComponent" THEN sg ELSE query
          /\ UNCHANGED << chatMessages, currentResponseIndexRef, hist, run, count,
                          isStreaming, isWaitingForResponse, sent >>
  /\ UNCHANGED << variant, strictMode, phase, sockets, wsRef, timers, connected, sessionId >>

\* cancelRequest adding no notice to the transcript.
cancelRequest_noNotice(prev, ref) == [msgs |-> prev, ref |-> ref]

\* The transcript and the reference after cancelRequest on an open socket.
cancelRequest(prev, ref) ==
  IF variant = "Chat"
  THEN LET r == completeCurrentResponse_Chat(prev, ref) IN
         [msgs |-> addMessage(r.msgs, "system", "--- Request cancelled by user ---"),
          ref |-> r.ref]
  ELSE [msgs |-> addMessage(prev, "system", "--- Cancellation requested ---"),
        ref |-> ref]

\* The wire shape of the cancel frame.
cancelShape == IF variant = "Chat" THEN "cancel:true" ELSE "type:cancel"

\* Cancel button onClick: cancelRequest(); the button is rendered while
\* waiting or streaming and disabled while disconnected.
CancelRequest ==
  /\ phase = "mounted"
  /\ (isWaitingForResponse \/ isStreaming) /\ connected
  /\ IF IsOpen
     THEN LET r == cancelRequest(chatMessages, currentResponseIndexRef) IN
            /\ sent' = Append(sent, Out(cancelShape, ""))
            /\ isStreaming' = FALSE
            /\ isWaitingForResponse' = FALSE
            /\ Count(1, 0, 0)
            /\ Commit(r.msgs, r.ref, FALSE, Keep(run, r.ref))
     ELSE UNCHANGED << chatMessages, currentResponseIndexRef, hist, run, count,
                          isStreaming, isWaitingForResponse, sent >>
  /\ UNCHANGED << variant, strictMode, phase, sockets, wsRef, timers, connected, query,
                  sessionId >>

\* The notice handleNewSession adds for the new session id.
newSessionNotice(id) ==
  IF variant = "Chat" THEN "--- New Session Started ---"
  ELSE "New session started: " \o id

\* "Start New Chat" onClick: handleNewSession(); Math.random() may return
\* any id.  ChatComponent.tsx also clears the input and the two flags.
HandleNewSession ==
  /\ phase = "mounted"
  /\ \E id \in SessionIds :
       /\ sessionId' = id
       /\ Count(1, 0, 0)
       /\ Commit(addMessage(<< >>, "system", newSessionNotice(id)),
                 currentResponseIndexRef, TRUE, [NoRun EXCEPT !.ended = run.ended])
  /\ query' = IF variant = "ChatComponent" THEN << >> ELSE query
  /\ isStreaming' = IF variant = "ChatComponent" THEN FALSE ELSE isStreaming
  /\ isWaitingForResponse' =
       IF variant = "ChatComponent" THEN FALSE ELSE isWaitingForResponse
  /\ UNCHANGED << variant, strictMode, phase, sockets, wsRef, timers, connected, sent >>

(***************************************************************************)
(* The specification.                                                      *)
(***************************************************************************)
Next ==
  \/ Mount
  \/ Unmount
  \/ \E s \in 1..Len(sockets) : SocketOpen(s)
  \/ \E s \in 1..Len(sockets) : SocketClosing(s)
  \/ \E s \in 1..Len(sockets) : \E failed \in BOOLEAN : SocketClose(s, failed)
  \/ TimerFire
  \/ \E s \in 1..Len(sockets) : \E f \in Frames : SocketMessage(s, f)
  \/ \E q \in Inputs : TypeQuery(q)
  \/ SendQuery
  \/ \E sg \in Suggestions : SuggestionClick(sg)
  \/ CancelRequest
  \/ HandleNewSession

Spec == Init /\ [][Next]_vars

\* The behaviours of projects/Chat.tsx alone, followed one write further.
SpecChat == InitChat /\ [][Next]_vars

\* The timers of the event loop fire: a pending setTimeout callback is
\* eventually run.
SpecLive == Init /\ [][Next]_vars /\ WF_vars(TimerFire)

TypeOK ==
  /\ variant \in Variants
  /\ strictMode \in BOOLEAN
  /\ phase \in {"init", "mounted", "unmounted"}
  /\ wsRef \in 0..Len(sockets)
  /\ timers \in Nat
  /\ connected \in BOOLEAN /\ isStreaming \in BOOLEAN
  /\ isWaitingForResponse \in BOOLEAN
  /\ currentResponseIndexRef \in NONE..count.max
  /\ Len(hist) = Len(chatMessages)

(***************************************************************************)
(* Steps and sets the properties speak of.                                 *)
(***************************************************************************)
\* The step delivers frame f and ws.onmessage takes branch b.
FrameStep(f, b) ==
  /\ dispatch(f) = b
  /\ \E s \in 1..Len(sockets) : SocketMessage(s, f)

\* The turns both transcripts have are the same.
OldTurnsKept ==
  /\ Len(chatMessages') >= Len(chatMessages)
  /\ \A i \in 1..Len(chatMessages) : chatMessages'[i] = chatMessages[i]

\* The step appends exactly one turn and changes no other.
OneTurnAppended ==
  /\ Len(chatMessages') = Len(chatMessages) + 1
  /\ OldTurnsKept

IsAssistant(m) == m.type \in {"chunk", "response"}

Incomplete == { i \in 1..Len(chatMessages) : chatMessages[i].isComplete = "false" }

LiveSockets == { s \in 1..Len(sockets) : Live(sockets[s]) }

SystemTurns(msgs) == { i \in 1..Len(msgs) : msgs[i].type = "system" }

Unchanged(i) ==
  /\ chatMessages[i].type = hist[i].type
  /\ chatMessages[i].content = hist[i].content

(***************************************************************************)
(* C1: while the reference keeps designating the assistant turn a chunk    *)
(* created, the text of that turn is the concatenation, in delivery order, *)
(* of the fragments delivered since: none dropped, repeated or reordered.  *)
(***************************************************************************)
C1_TextIsConcatenation ==
  run.ref # NONE =>
    /\ currentResponseIndexRef = run.ref
    /\ run.ref < Len(chatMessages)
    /\ chatMessages[run.ref + 1].type = "chunk"
    /\ chatMessages[run.ref + 1].content = Concat(run.frags)

\* Three fragments have been merged into the turn in progress.
C1_Witness ==
  /\ run.ref # NONE
  /\ Len(run.frags) = 3
  /\ chatMessages[run.ref + 1].content = "Hello, "

(***************************************************************************)
(* C2: two responses are never mixed in one assistant turn: a chunk that   *)
(* arrives after a query was submitted is never appended to an assistant   *)
(* turn created before that query's user turn.                             *)
(***************************************************************************)
C2_NoMixedResponses ==
  [][\A f \in Frames :
       ( /\ FrameStep(f, "chunk")
         /\ Len(chatMessages') = Len(chatMessages)
         /\ count.queries > 0
         /\ hist[currentResponseIndexRef + 1].type = "chunk" )
       => hist[currentResponseIndexRef + 1].gen = count.queries]_vars

(***************************************************************************)
(* C3: user, system and error turns are immutable: as long as such a turn  *)
(* is in the transcript its role and text are those it was created with.   *)
(***************************************************************************)
C3_OtherTurnsImmutable ==
  \A i \in 1..Len(chatMessages) :
    hist[i].type \in {"query", "system", "error"} => Unchanged(i)

(***************************************************************************)
(* C4: in projects/Chat every transcript holds at most one assistant turn  *)
(* that is incomplete (isComplete = false).                                *)
(***************************************************************************)
C4_AtMostOneIncomplete ==
  variant = "Chat" => Cardinality(Incomplete) <= 1

\* A completed assistant turn is followed by one still in progress.
C4_Witness ==
  /\ variant = "Chat"
  /\ \E i, j \in 1..Len(chatMessages) :
       /\ i < j
       /\ chatMessages[i].type = "response"
       /\ chatMessages[i].isComplete = "true"
       /\ chatMessages[j].type = "chunk"
       /\ chatMessages[j].isComplete = "false"

(***************************************************************************)
(* C5: after an end, done or cancelled frame is processed the reference    *)
(* is 'none', and the next chunk appends a new assistant turn instead of   *)
(* extending an existing turn.                                             *)
(***************************************************************************)
C5_TerminalFrameClearsReference ==
  [][\A f \in Frames :
       /\ (FrameStep(f, "end") \/ FrameStep(f, "cancelled"))
            => currentResponseIndexRef' = NONE
       /\ (FrameStep(f, "chunk") /\ run.ended)
            => /\ OneTurnAppended
               /\ IsAssistant(chatMessages'[Len(chatMessages')])]_vars

(***************************************************************************)
(* C6: a chunk processed while the reference is 'none' appends exactly one *)
(* turn, an assistant turn whose text is the frame's data; the reference   *)
(* becomes its position and no other turn changes.                         *)
(***************************************************************************)
C6_FirstChunkCreatesTurn ==
  [][\A f \in Frames :
       (FrameStep(f, "chunk") /\ currentResponseIndexRef = NONE)
       => /\ OneTurnAppended
          /\ chatMessages'[Len(chatMessages')].type = "chunk"
          /\ chatMessages'[Len(chatMessages')].content = f.data
          /\ currentResponseIndexRef' = Len(chatMessages)]_vars

\* The first chunk of the session, delivered while the reference was
\* 'none', is the last turn of the transcript.
C6_Witness ==
  /\ count.chunks = 1
  /\ currentResponseIndexRef = Len(chatMessages) - 1
  /\ chatMessages[Len(chatMessages)].type = "chunk"
  /\ chatMessages[Len(chatMessages)].content = "He"

(***************************************************************************)
(* C7: after the teardown of the view (the cleanup of the mount effect     *)
(* calling disconnect()) no socket is opened again for the session.        *)
(***************************************************************************)
C7_NoSocketAfterTeardown ==
  [][(phase = "unmounted" /\ phase' = "unmounted")
       => Len(sockets') = Len(sockets)]_vars

(***************************************************************************)
(* C8: when the current socket closes while the view is mounted,           *)
(* connected becomes false, one system notice is appended and one          *)
(* reconnect is scheduled; a timer that fires opens one socket when the    *)
(* current socket is closed (or released) and none while the socket a      *)
(* previous timer opened is still connecting or open.                      *)
(***************************************************************************)
C8_CloseReconnectsOnce ==
  [][/\ \A failed \in BOOLEAN :
          (phase = "mounted" /\ wsRef # 0 /\ SocketClose(wsRef, failed))
          => /\ ~connected'
             /\ Cardinality(SystemTurns(chatMessages'))
                  = Cardinality(SystemTurns(chatMessages)) + 1
             /\ timers' = timers + 1
     /\ TimerFire
          => Len(sockets') =
               Len(sockets) + (IF wsRef = 0 \/ sockets[wsRef].readyState = "CLOSED"
                               THEN 1 ELSE 0)]_vars

\* Two closes scheduled two timers, both have fired and one socket was
\* opened.
C8_Witness ==
  /\ phase = "mounted"
  /\ timers = 0
  /\ Len(sockets) = 3
  /\ sockets[1].readyState = "CLOSED"
  /\ sockets[2].readyState = "CLOSED"
  /\ Live(sockets[3])

(***************************************************************************)
(* C9: at most one socket of the session is CONNECTING or OPEN.            *)
(***************************************************************************)
C9_AtMostOneLiveSocket == Cardinality(LiveSockets) <= 1

\* A reconnect timer is pending while the socket another timer opened is
\* connecting or open.
C9_Witness ==
  /\ timers >= 1
  /\ wsRef = 3
  /\ Live(sockets[wsRef])

ConnectedNotices(msgs) ==
  { i \in 1..Len(msgs) : msgs[i] = Msg("system", "Connected to WebSocket", "true") }

\* The sockets this step opens.
Opened ==
  { s \in 1..Len(sockets) :
      sockets[s].readyState # "OPEN" /\ sockets'[s].readyState = "OPEN" }

C11_ConnectIdempotent ==
  [][/\ IsOpen => connect(Conn(sockets, wsRef)) = Conn(sockets, wsRef)
     /\ OldTurnsKept =>
          Cardinality(ConnectedNotices(chatMessages'))
            = Cardinality(ConnectedNotices(chatMessages)) + Cardinality(Opened)]_vars

\* Under StrictMode the first socket has closed and its reconnect timer has
\* fired without creating a third socket; the current socket is open and
\* announced once.
C11_Witness ==
  /\ strictMode
  /\ IsOpen /\ wsRef = 2 /\ Len(sockets) = 2
  /\ sockets[1].readyState = "CLOSED" /\ timers = 0
  /\ Cardinality(ConnectedNotices(chatMessages)) = 1

(***************************************************************************)
(* C12: when a socket reports a transport error (ws.onerror), in any       *)
(* state, connected becomes false, exactly one error turn is appended and  *)
(* isStreaming and isWaitingForResponse both become false.                 *)
(***************************************************************************)
ErrorTurns(msgs) == { i \in 1..Len(msgs) : msgs[i].type = "error" }

C12_TransportErrorClearsFlags ==
  [][\A s \in 1..Len(sockets) :
       SocketClose(s, TRUE)
       => /\ ~connected'
          /\ OldTurnsKept
          /\ Cardinality(ErrorTurns(chatMessages'))
               = Cardinality(ErrorTurns(chatMessages)) + 1
          /\ ~isStreaming'
          /\ ~isWaitingForResponse']_vars

(***************************************************************************)
(* C13: a frame with an error field and none of the types chunk, end,      *)
(* done, cancelled clears isStreaming and isWaitingForResponse, appends    *)
(* exactly one error turn holding the message, leaves the reference and    *)
(* every existing turn (the one in progress included) as they are, and     *)
(* leaves the sockets, wsRef.current, connected and the timers unchanged.  *)
(***************************************************************************)
C13_ErrorFrameKeepsResponse ==
  [][\A f \in Frames :
       FrameStep(f, "error")
       => /\ ~isStreaming' /\ ~isWaitingForResponse'
          /\ OneTurnAppended
          /\ chatMessages'[Len(chatMessages')] = Msg("error", "Error: " \o f.error, "true")
          /\ currentResponseIndexRef' = currentResponseIndexRef
          /\ UNCHANGED << sockets, wsRef, connected, timers >>]_vars

\* An error frame arrived in mid-stream: the turn in progress is still a
\* chunk turn designated by the reference, followed by the error turn.
C13_Witness ==
  /\ Len(chatMessages) >= 2
  /\ chatMessages[Len(chatMessages)] = Msg("error", "Error: boom", "true")
  /\ currentResponseIndexRef = Len(chatMessages) - 2
  /\ chatMessages[currentResponseIndexRef + 1].type = "chunk"
  /\ chatMessages[currentResponseIndexRef + 1].content = "Hello"
  /\ ~isStreaming /\ connected

(***************************************************************************)
(* C14: a cancelled frame that arrives after the client's optimistic       *)
(* cancelRequest (the cancel frame is the last frame sent, its notice the  *)
(* last turn, both flags still false) is harmless: no existing turn        *)
(* changes its text, role or completion state, the flags stay false and    *)
(* exactly one system notice holding the frame's message is appended.      *)
(***************************************************************************)
cancelNotice ==
  IF variant = "Chat" THEN "--- Request cancelled by user ---"
  ELSE "--- Cancellation requested ---"

\* Nothing was sent or appended since cancelRequest ran.
AfterCancelRequest ==
  /\ sent # << >> /\ sent[Len(sent)].shape = cancelShape
  /\ chatMessages # << >>
  /\ chatMessages[Len(chatMessages)] = Msg("system", cancelNotice, "true")
  /\ ~isStreaming /\ ~isWaitingForResponse

C14_CancelledAfterCancelHarmless ==
  [][\A f \in Frames :
       (AfterCancelRequest /\ FrameStep(f, "cancelled"))
       => /\ OneTurnAppended
          /\ chatMessages'[Len(chatMessages')]
               = Msg("system", "--- Request cancelled: " \o f.message \o " ---", "true")
          /\ ~isStreaming' /\ ~isWaitingForResponse']_vars

(***************************************************************************)
(* C15: a query submission (the form's sendQuery or a suggestion click) is *)
(* a no-op unless the query is non-empty after trimming and the current    *)
(* socket is OPEN: no user turn is appended, no frame is sent and the      *)
(* waiting and streaming flags are unchanged.                              *)
(***************************************************************************)
C15_RejectedSubmissionNoOp ==
  [][/\ (SendQuery /\ (Trim(query) = << >> \/ ~IsOpen))
          => UNCHANGED << chatMessages, sent, isStreaming, isWaitingForResponse >>
     /\ \A sg \in Suggestions :
          (SuggestionClick(sg) /\ ~IsOpen)
          => UNCHANGED << chatMessages, sent, isStreaming, isWaitingForResponse >>]_vars

\* A white-space query is in the input of a connected view whose socket is
\* open; nothing was sent.
C15_Witness ==
  /\ phase = "mounted" /\ connected /\ ~isStreaming
  /\ query = <<" ">>
  /\ IsOpen
  /\ sent = << >>

(***************************************************************************)
(* C16: a successful submission (query non-empty after trimming, socket    *)
(* OPEN) appends exactly one user turn holding the query text, sends       *)
(* exactly one frame {query, sessionId} with the current sessionId, sets   *)
(* waiting, clears streaming and clears the input; hence, since the last   *)
(* new chat, there are as many user turns as query frames sent (every step *)
(* but a new chat changes both numbers alike), and a query frame is sent   *)
(* by a submission only, never again by an error or a reconnect.           *)
(***************************************************************************)
QueryTurns(msgs) == { i \in 1..Len(msgs) : msgs[i].type = "query" }

QueryFrames(fs) == { i \in 1..Len(fs) : fs[i].shape = "query" }

\* The effects of a submission of text.
Submitted(text) ==
  /\ OneTurnAppended
  /\ chatMessages'[Len(chatMessages')] = Msg("query", text, "true")
  /\ sent' = Append(sent, [shape |-> "query", query |-> text, sessionId |-> sessionId])
  /\ isWaitingForResponse' /\ ~isStreaming'
  /\ query' = << >>

C16_SubmissionEffects ==
  [][/\ (SendQuery /\ Trim(query) # << >> /\ IsOpen) => Submitted(Str(query))
     /\ \A sg \in Suggestions : (SuggestionClick(sg) /\ IsOpen) => Submitted(Str(sg))
     /\ ~HandleNewSession
          => Cardinality(QueryTurns(chatMessages')) - Cardinality(QueryTurns(chatMessages))
               = Cardinality(QueryFrames(sent')) - Cardinality(QueryFrames(sent))
     /\ QueryFrames(sent') # QueryFrames(sent)
          => (SendQuery \/ \E sg \in Suggestions : SuggestionClick(sg))]_vars

(***************************************************************************)
(* C17: from a freshly connected session, send query "A", receive chunk    *)
(* "He", chunk "llo" and end: the user and assistant turns are one user    *)
(* turn "A" followed by one completed assistant turn "Hello"; waiting and  *)
(* streaming are false and no response is in progress.                     *)
(***************************************************************************)
\* The turns of the transcript were created, in this order, by the open
\* event, the query "A", a chunk "He" and the notice n; the transcript was
\* written w times, c chunks were delivered and only the query was sent.
Scenario(n, w, c) ==
  /\ hist = << [type |-> "system", content |-> "Connected to WebSocket", gen |-> 0],
               [type |-> "query", content |-> "A", gen |-> 1],
               [type |-> "chunk", content |-> "He", gen |-> 1],
               [type |-> "system", content |-> n, gen |-> 1] >>
  /\ count.writes = w /\ count.chunks = c
  /\ sent = << [shape |-> "query", query |-> "A", sessionId |-> "session-a"] >>

ScenarioHello == Scenario("--- End of Response ---", 5, 2)

ScenarioStopped == Scenario("--- Request cancelled: stopped ---", 4, 1)

InProgress ==
  /\ currentResponseIndexRef >= 0 /\ currentResponseIndexRef < Len(chatMessages)
  /\ IsAssistant(chatMessages[currentResponseIndexRef + 1])

Finished(c) ==
  IF variant = "Chat" THEN Msg("response", c, "true") ELSE Msg("chunk", c, "undefined")

C20_NewSessionKeepsConnection ==
  [][/\ HandleNewSession => UNCHANGED << sockets, wsRef, connected, timers, sent >>
     /\ sessionId' # sessionId => HandleNewSession
     /\ sent' # sent
          => /\ Len(sent') = Len(sent) + 1
             /\ SubSeq(sent', 1, Len(sent)) = sent
             /\ sent'[Len(sent')].sessionId = sessionId]_vars

\* After a new chat on the one socket of the session, still open, a query
\* was sent with the new sessionId.
C20_Witness ==
  /\ sessionId = "session-b"
  /\ Len(sockets) = 1 /\ IsOpen /\ connected /\ timers = 0
  /\ sent # << >>
  /\ sent[Len(sent)] = [shape |-> "query", query |-> "A", sessionId |-> "session-b"]
  /\ chatMessages[1] = Msg("system", newSessionNotice("session-b"), "true")

(***************************************************************************)
(* C21: immediately after a new chat is started (handleNewSession), in any *)
(* state, the reference is 'none': a reference recorded before the new     *)
(* chat designates no turn of the new transcript.                          *)
(***************************************************************************)
C21_NewSessionClearsReference ==
  [][HandleNewSession => currentResponseIndexRef' = NONE]_vars

(***************************************************************************)
(* C22: while the view stays mounted, every close of the current socket is *)
(* eventually followed by a new connect() attempt (a current socket that   *)
(* is not closed), provided pending timers eventually fire, however many   *)
(* earlier attempts failed.                                                *)
(***************************************************************************)
CurrentClosed == phase = "mounted" /\ wsRef # 0 /\ sockets[wsRef].readyState = "CLOSED"

Reattempted == phase # "mounted" \/ (wsRef # 0 /\ sockets[wsRef].readyState # "CLOSED")

C22_ReconnectsAfterEveryClose == CurrentClosed ~> Reattempted

\* Without StrictMode two attempts failed one after the other and a third
\* socket was created by the second reconnect.
C22_Witness ==
  /\ ~strictMode /\ phase = "mounted"
  /\ Len(sockets) = 3 /\ wsRef = 3
  /\ sockets[1].readyState = "CLOSED" /\ sockets[2].readyState = "CLOSED"
  /\ ~sockets[1].wasOpen /\ ~sockets[2].wasOpen
  /\ sockets[3].readyState = "CONNECTING"

(***************************************************************************)
(* C23: a chunk arriving while the reference is set but is no position of  *)
(* the transcript (a new chat shortened it) is not dropped and modifies no *)
(* existing turn: a new assistant turn holding exactly the fragment is     *)
(* appended and the reference is set to its position.                      *)
(***************************************************************************)
Dangling == currentResponseIndexRef # NONE /\ currentResponseIndexRef >= Len(chatMessages)

C23_DanglingReferenceStartsNewTurn ==
  [][\A f \in Frames :
       (Dangling /\ FrameStep(f, "chunk"))
         => /\ OneTurnAppended
            /\ IsAssistant(chatMessages'[Len(chatMessages')])
            /\ chatMessages'[Len(chatMessages')].content = f.data
            /\ currentResponseIndexRef' = Len(chatMessages)]_vars

\* A second fragment arrived after a new chat in mid-stream: it is the turn
\* after the notice and the reference, left at 1 by the reset, is its position.
C23_Witness ==
  /\ Len(chatMessages) = 2
  /\ chatMessages[1] = Msg("system", newSessionNotice(sessionId), "true")
  /\ chatMessages[2].type = "chunk" /\ chatMessages[2].content = Fragment(1)
  /\ currentResponseIndexRef = 1
  /\ count.chunks = 2 /\ count.writes = 4 /\ sent = << >>

(***************************************************************************)
(* C24: cancelRequest with an OPEN socket, in one step and without waiting *)
(* for a cancelled frame, sends exactly one cancel frame carrying the      *)
(* current sessionId, sets waiting and streaming to false and appends      *)
(* exactly one system notice; with no socket or a socket that is not OPEN  *)
(* it sends no frame, changes no flag and adds no notice.                  *)
(***************************************************************************)
C24_CancelRequestEffects ==
  [][CancelRequest
       => IF wsRef # 0 /\ sockets[wsRef].readyState = "OPEN"
          THEN /\ Len(sent') = Len(sent) + 1
               /\ \A i \in 1..Len(sent) : sent'[i] = sent[i]
               /\ sent'[Len(sent')].shape = cancelShape
               /\ sent'[Len(sent')].sessionId = sessionId
               /\ ~isStreaming' /\ ~isWaitingForResponse'
               /\ Len(chatMessages') = Len(chatMessages) + 1
               /\ chatMessages'[Len(chatMessages')] = Msg("system", cancelNotice, "true")
               /\ \A i \in 1..Len(chatMessages) : chatMessages'[i].type # "system"
                                                   \/ chatMessages[i].type = "system"
          ELSE UNCHANGED << sent, isStreaming, isWaitingForResponse, chatMessages >>]_vars

\* The user cancelled the answer to a query while its first fragment was
\* streaming: the cancel frame follows the query frame and carries its id.
C24_Witness ==
  /\ Len(sent) = 2 /\ sent[1].shape # cancelShape
  /\ sent[2] = [shape |-> cancelShape, query |-> "", sessionId |-> sessionId]
  /\ Len(chatMessages) = 4
  /\ IsAssistant(chatMessages[3])
  /\ chatMessages[4] = Msg("system", cancelNotice, "true")
  /\ ~isStreaming /\ ~isWaitingForResponse
  /\ wsRef # 0 /\ sockets[wsRef].readyState = "OPEN"

(***************************************************************************)
(* C25: whenever the reference is a valid position of the transcript, the  *)
(* turn at that position is an assistant turn, never a user, system or     *)
(* error turn, in every reachable state.                                   *)
(***************************************************************************)
C25_ReferenceDesignatesAssistantTurn ==
  (currentResponseIndexRef >= 0 /\ currentResponseIndexRef < Len(chatMessages))
    => IsAssistant(chatMessages[currentResponseIndexRef + 1])

(***************************************************************************)
(* C27: the waiting and streaming flags are never both true, in every      *)
(* reachable state.                                                        *)
(***************************************************************************)
C27_NotWaitingAndStreaming == ~(isStreaming /\ isWaitingForResponse)

\* The first fragment of the answer to a submitted query arrived: waiting
\* was true, the chunk cleared it and set streaming.
C27_Witness ==
  /\ isStreaming /\ ~isWaitingForResponse
  /\ count.queries = 1 /\ count.chunks = 1
  /\ Len(chatMessages) = 3 /\ chatMessages[2].type = "query"
  /\ IsAssistant(chatMessages[3])

C29_NewSessionResetsTranscriptAndFlags ==
  [][HandleNewSession
       => /\ Len(chatMessages') = 1
          /\ chatMessages'[1] = Msg("system", newSessionNotice(sessionId'), "true")
          /\ ~isStreaming' /\ ~isWaitingForResponse']_vars

(***************************************************************************)
(* C26: after the user cancelled (the cancel frame is the last frame       *)
(* sent), and until another query is submitted, streaming stays false and  *)
(* no assistant turn is created or extended, even when chunk frames of the *)
(* cancelled response are still delivered.                                 *)
(***************************************************************************)
Cancelled == sent # << >> /\ sent[Len(sent)].shape = cancelShape

\* Every assistant turn of the new transcript was there with the same text.
NoAssistantTurnCreatedOrExtended ==
  \A i \in 1..Len(chatMessages') :
    IsAssistant(chatMessages'[i])
      => /\ i <= Len(chatMessages)
         /\ IsAssistant(chatMessages[i])
         /\ chatMessages'[i].content = chatMessages[i].content

C26_NothingStreamsAfterCancel ==
  [][(Cancelled /\ sent' = sent)
       => (~isStreaming' /\ NoAssistantTurnCreatedOrExtended)]_vars

(***************************************************************************)
(* C30: a frame whose type is none of chunk, end, done, cancelled and that *)
(* has no error field is ignored: the transcript, the two flags, the       *)
(* reference, the sockets and connected are unchanged; a frame with a      *)
(* recognized type is handled by its type even when it carries an error    *)
(* field: it has the effect of the same frame without the field and adds   *)
(* no error turn.                                                          *)
(***************************************************************************)
Recognized == {"chunk", "end", "done", "cancelled"}

Delivered(f) == \E s \in 1..Len(sockets) : SocketMessage(s, f)

C30_DispatchByType ==
  [][\A f \in Frames :
       /\ (f.type \notin Recognized /\ f.error = "" /\ Delivered(f))
            => UNCHANGED << chatMessages, isStreaming, isWaitingForResponse,
                            currentResponseIndexRef, sockets, wsRef, connected >>
       /\ (f.type \in Recognized /\ f.error # "" /\ Delivered(f))
            => /\ ErrorTurns(chatMessages') \subseteq ErrorTurns(chatMessages)
               /\ LET r == onmessage(chatMessages, currentResponseIndexRef,
                                     [f EXCEPT !.error = ""]) IN
                    /\ chatMessages' = r.msgs
                    /\ currentResponseIndexRef' = r.ref
               /\ ~isWaitingForResponse'
               /\ isStreaming' = (f.type = "chunk")]_vars

\* A streamed response was ended by a terminal frame: the notice follows the
\* assistant turn and the reference is reset.
C30_Witness ==
  /\ Len(chatMessages) = 4
  /\ chatMessages[2].type = "query"
  /\ IsAssistant(chatMessages[3])
  /\ chatMessages[4] = Msg("system", "--- End of Response ---", "true")
  /\ ~isStreaming /\ ~isWaitingForResponse
  /\ currentResponseIndexRef = NONE
  /\ wsRef # 0 /\ sockets[wsRef].readyState = "OPEN"

====
